---- MODULE Spec2Model ----
(***************************************************************************)
(* Model of backend/main.py: the /analyze/ request pipeline and the        *)
(* /audio/{filename} retrieval endpoint over the shared upload directory.  *)
(*                                                                         *)
(* Strings the code takes apart (file names, paths, URLs) are sequences of *)
(* tokens: one token per character, except for pieces that hold no "." and *)
(* no "/" and are never split ("uploads", "audio", a uuid).                *)
(***************************************************************************)
EXTENDS Integers, Sequences, FiniteSets, TLC

VARIABLES
    pc,       \* pc[r]: the line of analyze_image request r is about to run
    req,      \* req[r]: the request's upload and the handler's local variables
    files,    \* the upload directory: path -> content
    used      \* identifiers uuid.uuid4() has returned so far

vars == <<pc, req, files, used>>

(***************************************************************************)
(* Bounds                                                                  *)
(***************************************************************************)
MaxRequests == 2

Requests == 1..MaxRequests

\* the values str(uuid.uuid4()) takes: the i-th identifier generated is named i
\* (random identifiers are interchangeable; one per request is all a run can use)
Uuids == {ToString(i) : i \in 1..MaxRequests}

(***************************************************************************)
(* Inputs                                                                  *)
(***************************************************************************)
jpg == <<"j", "p", "g">>
jpeg == <<"j", "p", "e", "g">>
png == <<"p", "n", "g">>
mp3 == <<"m", "p", "3">>
gif == <<"g", "i", "f">>

\* upload file names a client may send
Filenames ==
    { <<"a", ".">> \o jpg,
      <<"a", ".", "b", ".", "J", "P", "E", "G">>,
      png,
      <<"a", ".">> \o jpg \o <<".">> \o gif }

\* image contents a client may send; "corrupt" is a payload PIL cannot decode
Images == {"cat", "dog", "corrupt"}

max_file_size == 5 * 1024 * 1024

\* byte lengths around the limit
Sizes == {max_file_size, max_file_size + 1}

UPLOAD_DIR == "uploads"

allowed_extensions == {jpg, jpeg, png}

(***************************************************************************)
(* String helpers                                                          *)
(***************************************************************************)
\* str.lower() on one character
LowerChar(c) ==
    CASE c = "J" -> "j"
      [] c = "P" -> "p"
      [] c = "E" -> "e"
      [] c = "G" -> "g"
      [] c = "N" -> "n"
      [] c = "A" -> "a"
      [] OTHER -> c

Lower(s) == [i \in 1..Len(s) |-> LowerChar(s[i])]

\* s.split(sep)[-1]: what follows the last sep, the whole of s when it has none
RECURSIVE LastPart(_, _)
LastPart(s, sep) ==
    IF s = <<>> THEN <<>>
    ELSE IF s[Len(s)] = sep THEN <<>>
    ELSE Append(LastPart(SubSeq(s, 1, Len(s) - 1), sep), s[Len(s)])

\* old is a prefix of s
StartsWith(s, old) ==
    /\ Len(s) >= Len(old)
    /\ SubSeq(s, 1, Len(old)) = old

\* str.replace(old, new): every non-overlapping occurrence, left to right
RECURSIVE Replace(_, _, _)
Replace(s, old, new) ==
    IF s = <<>> THEN <<>>
    ELSE IF StartsWith(s, old)
         THEN new \o Replace(SubSeq(s, Len(old) + 1, Len(s)), old, new)
         ELSE <<s[1]>> \o Replace(Tail(s), old, new)

\* os.path.join(a, b) for a relative b
PathJoin(dir, name) == <<dir, "/">> \o name

\* os.path.basename
Basename(path) == LastPart(path, "/")

(***************************************************************************)
(* Values                                                                  *)
(***************************************************************************)
NoText == "<unset>"
NoSeq == <<>>
NoSize == -1
NoStatus == 0

\* the handler's view of one request before it is received
NoRequest ==
    [ filename |-> NoSeq, image |-> NoText, file_ext |-> NoSeq,
      file_size |-> NoSize, file_path |-> NoSeq, caption |-> NoText,
      tts_file |-> NoSeq, status |-> NoStatus, resp_caption |-> NoText,
      audio_url |-> NoSeq ]

\* a variant of UploadName: the upload is stored under a fixed stem
UploadNameFixed(id, file_ext) == <<"upload", ".">> \o file_ext

\* str(uuid.uuid4()) holds hex digits and dashes only: one token
\* f"{uuid.uuid4()}.{file_ext}"
UploadName(id, file_ext) == <<id, ".">> \o file_ext

\* a variant of TtsFile: ".mp3" is appended to the path instead of replacing the suffix
TtsFileAppended(file_path, file_ext) == file_path \o <<".">> \o mp3

\* file_path.replace(f".{file_ext}", ".mp3")
TtsFile(file_path, file_ext) == Replace(file_path, <<".">> \o file_ext, <<".">> \o mp3)

\* f"/audio/{os.path.basename(tts_file)}"
AudioUrl(tts_file) == <<"/", "audio", "/">> \o Basename(tts_file)

\* open(path, "wb") and write: creates the file or replaces its content
WriteFile(fs, path, content) ==
    [p \in DOMAIN fs \cup {path} |-> IF p = path THEN content ELSE fs[p]]

\* os.path.exists in the upload directory fs
Exists(fs, path) == path \in DOMAIN fs

\* Image.open(image_path).convert("RGB") succeeds
Decodes(path) ==
    /\ Exists(files, path)
    /\ files[path].kind = "image"
    /\ files[path].data # "corrupt"

\* the caption BLIP generates for decoded image content (deterministic inference)
CaptionOf(data) ==
    CASE data = "cat" -> "a cat"
      [] data = "dog" -> "a dog"
      [] OTHER -> "a thing"

\* describe_scene(image_path) on success: the caption of the image stored there
Caption(path) == CaptionOf(files[path].data)

\* a variant of uuid4: the identifier may be one that was generated before
uuid4_reused == Uuids

(***************************************************************************)
(* uuid.uuid4(): a fresh random identifier                                 *)
(***************************************************************************)
uuid4 == { id \in Uuids : id \notin used /\ id = ToString(Cardinality(used) + 1) }

(***************************************************************************)
(* POST /analyze/                                                          *)
(***************************************************************************)
\* exceptions raised inside the handler's try block
HTTPException(status_code) == [kind |-> "HTTPException", status_code |-> status_code]
OtherException == [kind |-> "Exception", status_code |-> 0]

\* a variant of Handle: without "except HTTPException: raise e" every exception
\* reaches the catch-all clause
HandleAll(e) == 500

\* lines 131-135: the status of the response an exception e ends the request with
Handle(e) == IF e.kind = "HTTPException" THEN e.status_code ELSE 500

\* a variant of ValidateExt: the extension is computed and never rejected
ValidateExtNoRaise(r) ==
    /\ pc[r] = "idle"
    /\ \E filename \in Filenames :
          req' = [req EXCEPT ![r].filename = filename,
                             ![r].file_ext = Lower(LastPart(filename, "."))]
    /\ pc' = [pc EXCEPT ![r] = "validate_size"]
    /\ UNCHANGED <<files, used>>

\* lines 97-106: the handler is entered with the upload's file name and checks
\* its extension; requests are numbered in their order of arrival
ValidateExt(r) ==
    /\ pc[r] = "idle"
    /\ \A q \in 1..(r - 1) : pc[q] # "idle"
    /\ \E filename \in Filenames :
          LET file_ext == Lower(LastPart(filename, "."))
              rq == [req EXCEPT ![r].filename = filename, ![r].file_ext = file_ext]
          IN  IF file_ext \notin allowed_extensions
              THEN /\ req' = [rq EXCEPT ![r].status = Handle(HTTPException(422))]
                   /\ pc' = [pc EXCEPT ![r] = "done"]
              ELSE /\ req' = rq
                   /\ pc' = [pc EXCEPT ![r] = "validate_size"]
    /\ UNCHANGED <<files, used>>

\* a variant of TooLarge: a file of exactly the limit is rejected
TooLargeInclusive(file_size) == file_size >= max_file_size

\* file_size > max_file_size
TooLarge(file_size) == file_size > max_file_size

\* lines 109-114
ValidateSize(r) ==
    /\ pc[r] = "validate_size"
    /\ \E file_size \in Sizes :
          LET rq == [req EXCEPT ![r].file_size = file_size]
          IN  IF TooLarge(file_size)
              THEN /\ req' = [rq EXCEPT ![r].status = Handle(HTTPException(422))]
                   /\ pc' = [pc EXCEPT ![r] = "done"]
              ELSE /\ req' = rq
                   /\ pc' = [pc EXCEPT ![r] = "persist"]
    /\ UNCHANGED <<files, used>>

\* lines 117-119
Persist(r) ==
    /\ pc[r] = "persist"
    /\ \E id \in uuid4, bytes \in Images :
          LET file_path == PathJoin(UPLOAD_DIR, UploadName(id, req[r].file_ext))
          IN  /\ used' = used \cup {id}
              /\ files' = WriteFile(files, file_path, [kind |-> "image", data |-> bytes])
              /\ req' = [req EXCEPT ![r].image = bytes, ![r].file_path = file_path]
    /\ pc' = [pc EXCEPT ![r] = "analyze"]

\* line 122, describe_scene (lines 59-87): any exception becomes HTTPException(500),
\* which the handler's "except HTTPException" re-raises unchanged
Analyze(r) ==
    /\ pc[r] = "analyze"
    /\ IF Decodes(req[r].file_path)
       THEN /\ req' = [req EXCEPT ![r].caption = Caption(req[r].file_path)]
            /\ pc' = [pc EXCEPT ![r] = "synthesize"]
       ELSE /\ req' = [req EXCEPT ![r].status = Handle(HTTPException(500))]
            /\ pc' = [pc EXCEPT ![r] = "done"]
    /\ UNCHANGED <<files, used>>

\* lines 125-127; gTTS may raise before tts_file is opened (no file) or while
\* tts.save is writing it (a partial file); "except Exception" turns both into 500
Synthesize(r) ==
    /\ pc[r] = "synthesize"
    /\ LET tts_file == TtsFile(req[r].file_path, req[r].file_ext)
           rq == [req EXCEPT ![r].tts_file = tts_file]
       IN  \/ /\ files' = WriteFile(files, tts_file,
                                    [kind |-> "audio", data |-> req[r].caption])
              /\ req' = rq
              /\ pc' = [pc EXCEPT ![r] = "respond"]
           \/ /\ \E opened \in BOOLEAN :
                    files' = IF opened
                             THEN WriteFile(files, tts_file,
                                            [kind |-> "partial", data |-> req[r].caption])
                             ELSE files
              /\ req' = [rq EXCEPT ![r].status = Handle(OtherException)]
              /\ pc' = [pc EXCEPT ![r] = "done"]
    /\ UNCHANGED used

\* line 129
Respond(r) ==
    /\ pc[r] = "respond"
    /\ req' = [req EXCEPT ![r].status = 200,
                          ![r].resp_caption = req[r].caption,
                          ![r].audio_url = AudioUrl(req[r].tts_file)]
    /\ pc' = [pc EXCEPT ![r] = "done"]
    /\ UNCHANGED <<files, used>>

(***************************************************************************)
(* GET /audio/{filename}                                                   *)
(***************************************************************************)
\* the path segments get_audio can be called with: every name the service can
\* create, the same stems with the other suffixes, and a name it never creates
AudioNames ==
    { <<id, ".">> \o e : id \in Uuids, e \in allowed_extensions \cup {mp3} }
        \cup { <<"nosuch", ".">> \o mp3 }

\* a variant of get_audio: existence is tested on the bare file name, outside
\* the upload directory
get_audio_bare(fs, filename) ==
    IF ~Exists(fs, filename)
    THEN [ status |-> 404, media_type |-> NoText ]
    ELSE [ status |-> 200, media_type |-> "audio/mpeg" ]

\* lines 142-145: the response to GET /audio/{filename} over the upload directory fs
get_audio(fs, filename) ==
    LET file_path == PathJoin(UPLOAD_DIR, filename)
    IN  IF ~Exists(fs, file_path)
        THEN [ status |-> 404, media_type |-> NoText ]
        ELSE [ status |-> 200, media_type |-> "audio/mpeg" ]

\* a variant of AudioFiles: the file is removed once it has been served
AudioFilesConsumed(fs, filename) ==
    [p \in DOMAIN fs \ {PathJoin(UPLOAD_DIR, filename)} |-> fs[p]]

\* lines 138-145: the upload directory a call of get_audio leaves behind; it
\* opens the file for reading only
AudioFiles(fs, filename) == fs

\* the path segments the clients of this model send: the audio name and an
\* upload name of the first identifier, and the name that is never created
ClientNames ==
    { <<ToString(1), ".">> \o jpg, <<ToString(1), ".">> \o mp3, <<"nosuch", ".">> \o mp3 }

\* a client calls the endpoint and is answered get_audio(files, filename)
GetAudio ==
    /\ \E filename \in ClientNames :
          /\ get_audio(files, filename).status \in {200, 404}
          /\ files' = AudioFiles(files, filename)
    /\ UNCHANGED <<pc, req, used>>

(***************************************************************************)
(* Specification                                                           *)
(***************************************************************************)
Init ==
    /\ pc = [r \in Requests |-> "idle"]
    /\ req = [r \in Requests |-> NoRequest]
    /\ files = << >>
    /\ used = {}

Next ==
    \/ \E r \in Requests : ValidateExt(r)
    \/ \E r \in Requests : ValidateSize(r)
    \/ \E r \in Requests : Persist(r)
    \/ \E r \in Requests : Analyze(r)
    \/ \E r \in Requests : Synthesize(r)
    \/ \E r \in Requests : Respond(r)
    \/ GetAudio

Spec == Init /\ [][Next]_vars

(***************************************************************************)
(* Vocabulary of the properties                                            *)
(***************************************************************************)
\* the extension of a file name: what follows its last ".", none without a "."
Extension(filename) ==
    IF \E i \in 1..Len(filename) : filename[i] = "."
    THEN LastPart(filename, ".")
    ELSE <<>>

\* the request has written nothing and has run neither model nor synthesis
NoSideEffects(r) ==
    /\ req[r].file_path = NoSeq
    /\ req[r].caption = NoText
    /\ req[r].tts_file = NoSeq

\* the path segment an audio_url asks the retrieval endpoint for
UrlName(audio_url) == SubSeq(audio_url, 4, Len(audio_url))

Stages == <<"idle", "validate_size", "persist", "analyze",
            "synthesize", "respond", "done">>

Rank(stage) == CHOOSE i \in 1..Len(Stages) : Stages[i] = stage

(***************************************************************************)
(* C1: every upload whose file-name extension, compared case-insensitively,*)
(* is not jpg, jpeg or png ends with 422, writes no file and invokes       *)
(* neither the captioning nor the synthesis stage.                         *)
(***************************************************************************)
C1_BadExtensionRejected ==
    \A r \in Requests :
        (pc[r] # "idle" /\ Lower(Extension(req[r].filename)) \notin allowed_extensions)
            => /\ NoSideEffects(r)
               /\ pc[r] = "done" => req[r].status = 422

(***************************************************************************)
(* C2: an upload larger than 5 MiB ends with 422, with no file written and *)
(* no model invoked; an upload with an allowed extension and a size of at  *)
(* most 5 MiB (the limit included) passes validation and goes on to the    *)
(* persist step.                                                           *)
(***************************************************************************)
C2_SizeLimit ==
    \A r \in Requests :
        /\ (req[r].file_size # NoSize /\ req[r].file_size > 5 * 1024 * 1024)
              => /\ pc[r] = "done"
                 /\ req[r].status = 422
                 /\ NoSideEffects(r)
        /\ (req[r].file_size # NoSize /\ req[r].file_size <= 5 * 1024 * 1024
                /\ req[r].file_ext \in allowed_extensions)
              => /\ req[r].status # 422
                 /\ Rank(pc[r]) >= Rank("persist")
                 /\ pc[r] = "done" => req[r].file_path # NoSeq

C2_Witness ==
    \E r, q \in Requests :
        /\ req[r].file_size = 5 * 1024 * 1024 + 1 /\ req[r].status = 422
        /\ req[q].file_size = 5 * 1024 * 1024 /\ req[q].file_path # NoSeq

(***************************************************************************)
(* C3: a success response carries audio_url /audio/<stem>.mp3 where        *)
(* <stem>.<ext> is the file this request persisted, and the upload and the *)
(* audio file both exist in the upload directory.                          *)
(***************************************************************************)
C3_AudioUrlFromStem ==
    \A r \in Requests :
        req[r].status = 200 =>
            \E stem \in Uuids :
                /\ req[r].file_ext \in allowed_extensions
                /\ req[r].file_path = <<"uploads", "/", stem, ".">> \o req[r].file_ext
                /\ req[r].audio_url = <<"/", "audio", "/", stem, ".", "m", "p", "3">>
                /\ req[r].file_path \in DOMAIN files
                /\ files[req[r].file_path].kind = "image"
                /\ <<"uploads", "/", stem, ".", "m", "p", "3">> \in DOMAIN files
                /\ files[<<"uploads", "/", stem, ".", "m", "p", "3">>].kind = "audio"

C3_Witness ==
    \E r, q \in Requests :
        /\ req[r].status = 200 /\ req[r].file_ext = jpeg
        /\ req[q].status = 200 /\ req[q].file_ext = png

(***************************************************************************)
(* C4: once /analyze/ has answered with audio_url /audio/<name>, GET       *)
(* /audio/<name> answers 200 with media type audio/mpeg after every later  *)
(* step, and no step removes a file or changes a complete audio file.      *)
(***************************************************************************)
C4_AudioStaysServed ==
    [][ /\ \A p \in DOMAIN files :
              /\ p \in DOMAIN files'
              /\ files[p].kind = "audio" => files'[p] = files[p]
        /\ \A r \in Requests :
              req'[r].status = 200 =>
                  /\ req[r].status = 200 => req'[r].audio_url = req[r].audio_url
                  /\ get_audio(files', UrlName(req'[r].audio_url))
                        = [ status |-> 200, media_type |-> "audio/mpeg" ]
      ]_vars

C4_Witness ==
    \E r, q \in Requests :
        /\ r # q
        /\ req[r].status = 200
        /\ req[q].status = 500
        /\ req[q].tts_file # NoSeq
        /\ get_audio(files, UrlName(req[r].audio_url)).status = 200

(***************************************************************************)
(* C5: GET /audio/{name} answers 200 only for names of audio files that an *)
(* /analyze/ call produced, and 404 for every other name.                  *)
(***************************************************************************)
C5_OnlyAudioServed ==
    \A name \in AudioNames :
        get_audio(files, name).status = 200 =>
            \E r \in Requests :
                /\ req[r].tts_file # NoSeq
                /\ Basename(req[r].tts_file) = name

(***************************************************************************)
(* C6: two successful /analyze/ calls, also with the same image and file   *)
(* name, return distinct audio_url values and persist their uploads under  *)
(* distinct paths.                                                         *)
(***************************************************************************)
C6_DistinctIdentifiers ==
    \A r, q \in Requests :
        (r # q /\ req[r].status = 200 /\ req[q].status = 200)
            => /\ req[r].audio_url # req[q].audio_url
               /\ req[r].file_path # req[q].file_path

C6_Witness ==
    \E r, q \in Requests :
        /\ r # q
        /\ req[r].status = 200 /\ req[q].status = 200
        /\ req[r].filename = req[q].filename
        /\ req[r].image = req[q].image

(***************************************************************************)
(* C7: under every interleaving no request touches a file of another one:  *)
(* the stored upload holds the request's own bytes, the caption is the one *)
(* of its own image, and its audio file is rendered from its own caption.  *)
(***************************************************************************)
C7_NoInterference ==
    \A r \in Requests :
        /\ req[r].file_path # NoSeq =>
              /\ req[r].file_path \in DOMAIN files
              /\ files[req[r].file_path] = [kind |-> "image", data |-> req[r].image]
              /\ \A q \in Requests \ {r} :
                    req[r].file_path \notin {req[q].file_path, req[q].tts_file}
        /\ req[r].caption # NoText => req[r].caption = CaptionOf(req[r].image)
        /\ (req[r].tts_file # NoSeq /\ req[r].tts_file \in DOMAIN files) =>
              files[req[r].tts_file].data = req[r].caption
              /\ \A q \in Requests \ {r} :
                    req[r].tts_file \notin {req[q].file_path, req[q].tts_file}
        /\ req[r].status = 200 =>
              /\ req[r].resp_caption = CaptionOf(req[r].image)
              /\ files[req[r].tts_file] = [kind |-> "audio", data |-> CaptionOf(req[r].image)]

C7_Witness ==
    \E r, q \in Requests :
        /\ req[r].status = 200 /\ req[r].image = "cat"
        /\ pc[q] = "synthesize" /\ req[q].image = "dog"
        /\ req[r].file_ext = req[q].file_ext

(***************************************************************************)
(* C8: a validation failure yields 422 (not 500); a failure of decode,     *)
(* detection, captioning or synthesis yields 500 and never a success;      *)
(* after a 500 past PERSIST the upload is still on disk; a failed analysis *)
(* leaves no audio file for the request.                                   *)
(***************************************************************************)
C8_ErrorClasses ==
    \A r \in Requests :
        /\ pc[r] = "done" <=> req[r].status # NoStatus
        /\ req[r].status \in {NoStatus, 200, 422, 500}
        /\ pc[r] = "done" =>
              /\ req[r].status = 422 <=>
                    \/ req[r].file_ext \notin allowed_extensions
                    \/ req[r].file_size > 5 * 1024 * 1024
              /\ req[r].status = 500 <=>
                    /\ req[r].file_path # NoSeq
                    /\ \/ req[r].caption = NoText
                       \/ req[r].tts_file \notin DOMAIN files
                       \/ files[req[r].tts_file].kind = "partial"
              /\ req[r].image = "corrupt" => req[r].status = 500
              /\ req[r].status = 500 =>
                    /\ req[r].file_path \in DOMAIN files
                    /\ files[req[r].file_path] = [kind |-> "image", data |-> req[r].image]
              /\ (req[r].status = 500 /\ req[r].caption = NoText) =>
                    /\ req[r].tts_file = NoSeq
                    /\ \A stem \in Uuids :
                          req[r].file_path = <<"uploads", "/", stem, ".">> \o req[r].file_ext
                              => <<"uploads", "/", stem, ".", "m", "p", "3">> \notin DOMAIN files

C8_Witness ==
    \E r, q \in Requests :
        /\ req[r].status = 422
        /\ req[q].status = 500 /\ req[q].caption = NoText
        /\ req[q].file_path \in DOMAIN files

C10_StageOrder ==
    [][ \A r \in Requests :
          /\ pc'[r] # pc[r] =>
                \/ Rank(pc'[r]) = Rank(pc[r]) + 1
                \/ pc'[r] = "done" /\ req'[r].status \in {422, 500}
          /\ req'[r].file_size # NoSize => req'[r].file_ext \in allowed_extensions
          /\ req'[r].file_path # NoSeq =>
                /\ req'[r].file_ext \in allowed_extensions
                /\ req'[r].file_size # NoSize
                /\ req'[r].file_size <= 5 * 1024 * 1024
          /\ (req[r].caption = NoText /\ req'[r].caption # NoText) =>
                /\ req[r].file_path \in DOMAIN files
                /\ req'[r].caption = CaptionOf(files[req[r].file_path].data)
          /\ (req[r].tts_file = NoSeq /\ req'[r].tts_file # NoSeq) =>
                req[r].caption # NoText
          /\ (req[r].status # 200 /\ req'[r].status = 200) =>
                /\ pc[r] = "respond"
                /\ req[r].tts_file \in DOMAIN files
                /\ files[req[r].tts_file] = [kind |-> "audio", data |-> req[r].caption]
      ]_vars

C10_Witness ==
    \E r \in Requests :
        /\ req[r].status = 200
        /\ pc[r] = "done"
        /\ req[r].file_size = 5 * 1024 * 1024

====
